---- MODULE Spec2Model ----
(***************************************************************************)
(* PubMed-Baseline: the checkpointed indexer (src/src/vector_store.py) and *)
(* the resumable downloader (src/src/downloader.py) as state machines.     *)
(***************************************************************************)
EXTENDS Integers, Sequences, FiniteSets, TLC

\* ------------------------------------------------------------------ bounds
MaxLines == 3
MaxBatch == 2
RemoteLen == 3
MaxRetries == 2
MaxLinks == 3
MaxNames == 2
MaxLimit == 2
MaxArchives == 2
MaxElems == 2
MaxIds == 3
MaxHits == 2

\* wait_time = 5 * (2 ** attempt)
BaseDelay == 5

\* ------------------------------------------------------------ store lines
\* One line of metadata.jsonl, by what index_papers looks at:
\*   enc  - the bytes decode as UTF-8 (open(..., encoding="utf-8"))
\*   json - json.loads(line) yields an object
\*   pmid - data.get("pmid"), "" when missing or empty
\*   text - title or abstract is non-empty
Ids == {"a", "b"}

OkLine(id) == [enc |-> TRUE, json |-> TRUE, pmid |-> id, text |-> TRUE]
BadEncLine == [enc |-> FALSE, json |-> TRUE, pmid |-> "a", text |-> TRUE]
BadJsonLine == [enc |-> TRUE, json |-> FALSE, pmid |-> "", text |-> FALSE]
NoPmidLine == [enc |-> TRUE, json |-> TRUE, pmid |-> "", text |-> TRUE]
NoTextLine == [enc |-> TRUE, json |-> TRUE, pmid |-> "b", text |-> FALSE]

StoreLines == {OkLine(id) : id \in Ids}
                \cup {BadEncLine, BadJsonLine, NoPmidLine, NoTextLine}

\* The checkpoint file: absent, truncated/unparsable, or {"processed_lines": n}.
Absent == [st |-> "absent", n |-> 0]
Corrupt == [st |-> "corrupt", n |-> 0]
Saved(n) == [st |-> "ok", n |-> n]

VARIABLES
    store,          \* metadata.jsonl: sequence of lines
    ckpt,           \* metadata.jsonl.checkpoint: Absent, Corrupt or a number
    index,          \* the collection: id -> number of entries stored under id
    pc,             \* position of index_papers
    bsz,            \* batch_size of the current run
    startLine,      \* start_line
    pos,            \* lines of the store the file iterator has consumed
    cur,            \* current_line
    docs,           \* documents/metadatas/ids, as the store lines they came from
    log,            \* upsert calls of the current run: [lines, ok]
    accepted,       \* store lines the index has accepted since the last reset
    redo,           \* lines accepted before this run and accepted again in it
    maxPersisted,   \* largest processed_lines fully written since the last reset
    maxBsz,         \* largest batch_size used since the last reset
    afterCrash,     \* the current run follows an interrupted run
    resetGhost      \* "reset" right after reset_db, "started" in the run after it

VARIABLES
    localFile,      \* the local archive file: the remote offsets its bytes came from
    dlPc,           \* position of download_file
    maxRetries,     \* max_retries
    attempt,        \* attempt
    curSize,        \* current_size
    hdr,            \* resume_header: the Range start, NoRange when there is none
    mode,           \* mode
    totalSize,      \* total_size
    body,           \* bytes of the response still to come
    reqRange,       \* Range start of the GET sent last
    gets,           \* GET requests sent by this call
    sleeps,         \* wait_time of every backoff sleep of this call
    status,         \* response.status_code of the GET of this attempt, 0 before it
    fileAtGet,      \* the local file as it was when the GET of this attempt was sent
    lastErr,        \* what this attempt raised: "none", "net" or "other"
    completeAtStart \* the file held the whole remote content when the call began

VARIABLES
    page,           \* the listing response: [ok, links]
    files,          \* files of sync_files, as get_file_list returned them
    syncPc,         \* position of sync_files
    limit,          \* limit
    count,          \* count
    successCount,   \* success_count
    failCount,      \* fail_count
    tried,          \* the download_file calls of this sync: [file, ok]
    listGets        \* listing requests get_file_list has made in this sync

VARIABLES
    rawDir,         \* the files of raw_dir: [name, gz, elems]
    storeExists,    \* metadata.jsonl exists
    ppc,            \* position of parse_all
    pfiles,         \* files of parse_all still to be processed
    results         \* the store as the last completed runs of parse_all left it, up
                    \* to two of them, over the raw_dir as it is now

VARIABLES
    idList,         \* the ArticleId entries of a record: [type, value]
    idPos,          \* entries of idList the loop has gone through
    doi,            \* doi
    pmcid,          \* pmcid
    idPc            \* position of the identifier scan of parse_article

VARIABLES
    vectorStore,    \* the global vector_store of main.py: "none" or "ready"
    qCall,          \* the last find_candidates call and what happened in it
    qResult         \* what that call handed back

VARIABLES
    vqVariant,      \* which vector_store module the VectorStore class is of
    vqRes,          \* what collection.query handed back: a sequence of hits
    vqPos,          \* i of "for i, doc_id in enumerate(ids)"
    vqCands,        \* candidates
    vqPc            \* position of VectorStore.query

dlVars == <<localFile, dlPc, maxRetries, attempt, curSize, hdr, mode, totalSize,
            body, reqRange, gets, sleeps, status, fileAtGet, lastErr,
            completeAtStart>>

idxVars == <<store, ckpt, index, pc, bsz, startLine, pos, cur, docs, log, accepted,
             redo, maxPersisted, maxBsz, afterCrash, resetGhost>>

syncVars == <<page, files, syncPc, limit, count, successCount, failCount, tried,
              listGets>>

parseVars == <<rawDir, storeExists, ppc, pfiles, results>>

idsVars == <<idList, idPos, doi, pmcid, idPc>>

queryVars == <<vectorStore, qCall, qResult>>

vqVars == <<vqVariant, vqRes, vqPos, vqCands, vqPc>>

vars == <<idxVars, dlVars, syncVars, parseVars, idsVars, queryVars, vqVars>>

\* What the steps of each part leave alone.
notIdx == <<dlVars, syncVars, parseVars, idsVars, queryVars, vqVars>>
notDl == <<idxVars, syncVars, parseVars, idsVars, queryVars, vqVars>>
notSync == <<idxVars, dlVars, parseVars, idsVars, queryVars, vqVars>>
notParse == <<ckpt, index, pc, bsz, startLine, pos, cur, docs, log, accepted, redo,
              maxPersisted, maxBsz, afterCrash, resetGhost, dlVars, syncVars,
              idsVars, queryVars, vqVars>>
notIds == <<idxVars, dlVars, syncVars, parseVars, queryVars, vqVars>>
notQuery == <<idxVars, dlVars, syncVars, parseVars, idsVars, vqVars>>
notVq == <<idxVars, dlVars, syncVars, parseVars, idsVars, queryVars>>

\* ------------------------------------------------------- pure operators
Max(a, b) == IF a >= b THEN a ELSE b
Min(a, b) == IF a <= b THEN a ELSE b

Range(s) == {s[i] : i \in 1..Len(s)}

\* not pmid or (not title and not abstract): the line is skipped.
Accepts(line) == line.json /\ line.pmid # "" /\ line.text

\* A line index_papers would accept, once decoded.
Valid(line) == line.enc /\ Accepts(line)

ValidLines(s, from, to) == {i \in (from + 1)..to : i <= Len(s) /\ Valid(s[i])}

ValidIds(s) == {s[i].pmid : i \in ValidLines(s, 0, Len(s))}

\* LoadCheckpoint answering 1 for a missing or unreadable file.
LoadCheckpoint_AbsentIsOne(c) == IF c.st = "ok" THEN c.n ELSE 1

\* _load_checkpoint: 0 when the file is absent or json.load raises.
LoadCheckpoint(c) == IF c.st = "ok" THEN c.n ELSE 0

\* collection.upsert(ids=...): an id already present is overwritten, a new one
\* is added; lines is the batch as store line numbers.
UpsertInto(idx, s, lines) ==
    [id \in Ids |->
        IF \E i \in 1..Len(lines) : s[lines[i]].pmid = id THEN 1 ELSE idx[id]]

\* FilePosAfterSkip with the skip left out.
FilePosAfterSkip_NoSkip(start, n) == 0

\* "for _ in range(start_line): next(f, None)": the iterator's position after
\* the skip, in a store of n lines.
FilePosAfterSkip(start, n) == Min(start, n)

EmptyIndex == [id \in Ids |-> 0]

\* Text-mode reads decode a buffered chunk at a time: reading line i raises
\* UnicodeDecodeError when line i is undecodable, and may raise already when an
\* undecodable line follows in the same chunk.
MustRaiseAt(s, i) == i <= Len(s) /\ ~s[i].enc
MayRaiseAt(s, i) == \E j \in i..Len(s) : ~s[j].enc

OkLines(l) == UNION {Range(l[i].lines) : i \in {j \in 1..Len(l) : l[j].ok}}
SentLines(l) == UNION {Range(l[i].lines) : i \in 1..Len(l)}

Ceil(n, b) == (n + b - 1) \div b

Running == {"read", "upsert", "save", "write", "fupsert", "fsave", "fwrite"}
Stopped == {"idle", "crashed", "done", "raised"}

\* ------------------------------------------------------------------- Init
IdxInit ==
    /\ store = <<>>
    /\ ckpt = Absent
    /\ index = EmptyIndex
    /\ pc = "idle"
    /\ bsz = 1
    /\ startLine = 0
    /\ pos = 0
    /\ cur = 0
    /\ docs = <<>>
    /\ log = <<>>
    /\ accepted = {}
    /\ redo = {}
    /\ maxPersisted = 0
    /\ maxBsz = 0
    /\ afterCrash = FALSE
    /\ resetGhost = "none"

NoRange == -1

\* The remote archive, byte by byte.
Remote == [i \in 1..RemoteLen |-> i]

DlInit ==
    /\ localFile = <<>>
    /\ dlPc = "idle"
    /\ maxRetries = 0
    /\ attempt = 0
    /\ curSize = 0
    /\ hdr = NoRange
    /\ mode = "wb"
    /\ totalSize = 0
    /\ body = <<>>
    /\ reqRange = NoRange
    /\ gets = 0
    /\ sleeps = <<>>
    /\ status = 0
    /\ fileAtGet = <<>>
    /\ lastErr = "none"
    /\ completeAtStart = FALSE

\* A hyperlink of the listing page, by what get_file_list looks at: name is
\* the rank of the href in lexical order, gz says that it ends in ".xml.gz".
\* NoHref is an anchor without href, or with an empty one.
Href(n, g) == [name |-> n, gz |-> g]
NoHref == [name |-> 0, gz |-> FALSE]
Hrefs == {Href(n, g) : n \in 1..MaxNames, g \in BOOLEAN} \cup {NoHref}

\* The listing responses: the request fails, or a page of links arrives.
ListingFailed == [ok |-> FALSE, links |-> <<>>]
Pages == {ListingFailed}
            \cup {[ok |-> TRUE, links |-> l] :
                    l \in UNION {[1..n -> Hrefs] : n \in 0..MaxLinks}}

\* limit of sync_files: None, or an integer.
NoLimit == [given |-> FALSE, n |-> 0]
Limit(n) == [given |-> TRUE, n |-> n]
Limits == {NoLimit} \cup {Limit(n) : n \in 0..MaxLimit}

SyncInit ==
    /\ page = ListingFailed
    /\ files = <<>>
    /\ syncPc = "idle"
    /\ limit = NoLimit
    /\ count = 0
    /\ successCount = 0
    /\ failCount = 0
    /\ tried = <<>>
    /\ listGets = 0

\* A PubmedArticle element of an archive, by what parse_article looks at:
\*   medline - it has a MedlineCitation child
\*   article - the MedlineCitation has an Article child
\*   pmid    - extract_text of the PMID child, "" when missing or empty
\*   text    - title or abstract come out non-empty
\*   raises  - extracting its fields raises inside the try block
\*   broken  - the archive is damaged here: the iterator raises instead of
\*             yielding the element
RawElem(m, a, id, t) ==
    [medline |-> m, article |-> a, pmid |-> id, text |-> t, raises |-> FALSE,
     broken |-> FALSE]
OkElem == RawElem(TRUE, TRUE, "a", TRUE)
OtherElem == RawElem(TRUE, TRUE, "b", TRUE)
NoPmidElem == RawElem(TRUE, TRUE, "", TRUE)
NoMedlineElem == RawElem(FALSE, FALSE, "", FALSE)
NoArticleElem == RawElem(TRUE, FALSE, "b", FALSE)
RaisingElem ==
    [medline |-> TRUE, article |-> TRUE, pmid |-> "a", text |-> TRUE,
     raises |-> TRUE, broken |-> FALSE]
BrokenElem ==
    [medline |-> FALSE, article |-> FALSE, pmid |-> "", text |-> FALSE,
     raises |-> FALSE, broken |-> TRUE]
RawElems == {OkElem, OtherElem, NoPmidElem, NoMedlineElem, NoArticleElem,
             RaisingElem, BrokenElem}

ElemSeqs(n) == UNION {[1..k -> RawElems] : k \in 0..n}

ParseInit ==
    /\ rawDir = {}
    /\ storeExists = FALSE
    /\ ppc = "idle"
    /\ pfiles = <<>>
    /\ results = <<>>

\* An ArticleId entry: its IdType attribute and its text.
IdTypes == {"doi", "pmc", "pii"}
IdValues == {"x", "y"}
ArticleIds == [type : IdTypes, value : IdValues]
IdLists == UNION {[1..n -> ArticleIds] : n \in 0..MaxIds}

IdsInit ==
    /\ idList = <<>>
    /\ idPos = 0
    /\ doi = ""
    /\ pmcid = ""
    /\ idPc = "idle"

\* keyword of find_candidates: the empty string is in every text; the title
\* and abstract of a store line with text mention its pmid and no other id.
Keywords == {""} \cup Ids

NoCall ==
    [keyword |-> "", limit |-> 0, useVector |-> FALSE, vsFailed |-> FALSE,
     searchRaised |-> FALSE]
NoResult == [raised |-> FALSE, from |-> "none", hits |-> <<>>]

QueryInit ==
    /\ vectorStore = "none"
    /\ qCall = NoCall
    /\ qResult = NoResult

\* The two modules of the repository that define VectorStore.
VqVariants == {"src/vector_store.py", "vector_store.py"}

VqInit ==
    /\ vqVariant = "src/vector_store.py"
    /\ vqRes = <<>>
    /\ vqPos = 0
    /\ vqCands = <<>>
    /\ vqPc = "idle"

Init ==
    /\ IdxInit /\ DlInit /\ SyncInit /\ ParseInit /\ IdsInit /\ QueryInit
    /\ VqInit

\* ---------------------------------------------------------------- actions
\* The run's locals, as they are when no run is in progress.
LocalsCleared ==
    /\ bsz' = 1
    /\ startLine' = 0
    /\ pos' = 0
    /\ cur' = 0
    /\ docs' = <<>>
    /\ log' = <<>>
    /\ redo' = {}
    /\ afterCrash' = FALSE

\* process_file appends one record per line to the store (open(output_file, "a"));
\* the store has a single writer, so no run is in progress.
StoreAppend ==
    /\ pc \in Stopped
    /\ Len(store) < MaxLines
    /\ \E l \in StoreLines : store' = Append(store, l)
    /\ pc' = IF pc = "crashed" THEN "crashed" ELSE "idle"
    /\ LocalsCleared
    /\ UNCHANGED <<ckpt, index, accepted, maxPersisted, maxBsz, resetGhost>>
    /\ storeExists' = TRUE
    /\ UNCHANGED <<dlVars, syncVars, rawDir, ppc, pfiles, results, idsVars,
                   queryVars, vqVars>>

\* index_papers up to the read loop: load the checkpoint, skip start_line lines.
IdxStart ==
    /\ pc \in Stopped
    /\ \E b \in 1..MaxBatch :
        /\ bsz' = b
        /\ maxBsz' = Max(maxBsz, b)
    /\ startLine' = LoadCheckpoint(ckpt)
    /\ pos' = FilePosAfterSkip(LoadCheckpoint(ckpt), Len(store))
    /\ cur' = LoadCheckpoint(ckpt)
    /\ docs' = <<>>
    /\ log' = <<>>
    /\ redo' = {}
    /\ afterCrash' = (pc = "crashed")
    /\ resetGhost' = IF resetGhost = "reset" THEN "started" ELSE "none"
    /\ \/ /\ \A j \in 1..FilePosAfterSkip(LoadCheckpoint(ckpt), Len(store)) :
                ~MustRaiseAt(store, j)
          /\ pc' = "read"
       \/ /\ LoadCheckpoint(ckpt) > 0
          /\ MayRaiseAt(store, 1)
          /\ pc' = "raised"
    /\ UNCHANGED <<store, ckpt, index, accepted, maxPersisted>>
    /\ UNCHANGED notIdx

\* IdxReadLine with the checkpoint written ahead of the upsert of a full batch.
IdxReadLine_SaveFirst ==
    /\ pc = "read"
    /\ pos < Len(store)
    /\ \/ /\ MayRaiseAt(store, pos + 1)
          /\ pc' = "raised"
          /\ UNCHANGED <<pos, cur, docs>>
       \/ /\ ~MustRaiseAt(store, pos + 1)
          /\ pos' = pos + 1
          /\ cur' = cur + 1
          /\ IF Accepts(store[pos + 1])
                THEN /\ docs' = Append(docs, pos + 1)
                     /\ pc' = IF Len(docs) + 1 >= bsz THEN "save" ELSE "read"
                ELSE UNCHANGED <<docs, pc>>
    /\ UNCHANGED <<store, ckpt, index, bsz, startLine, log, accepted, redo,
                   maxPersisted, maxBsz, afterCrash, resetGhost>>
    /\ UNCHANGED notIdx

\* One iteration of "for line in iterator", up to the upsert.
IdxReadLine ==
    /\ pc = "read"
    /\ pos < Len(store)
    /\ \/ /\ MayRaiseAt(store, pos + 1)
          /\ pc' = "raised"
          /\ UNCHANGED <<pos, cur, docs>>
       \/ /\ ~MustRaiseAt(store, pos + 1)
          /\ pos' = pos + 1
          /\ cur' = cur + 1
          /\ IF Accepts(store[pos + 1])
                THEN /\ docs' = Append(docs, pos + 1)
                     /\ pc' = IF Len(docs) + 1 >= bsz THEN "upsert" ELSE "read"
                ELSE UNCHANGED <<docs, pc>>
    /\ UNCHANGED <<store, ckpt, index, bsz, startLine, log, accepted, redo,
                   maxPersisted, maxBsz, afterCrash, resetGhost>>
    /\ UNCHANGED notIdx

\* collection.upsert returns.
IdxUpsertOk ==
    /\ pc \in {"upsert", "fupsert"}
    /\ index' = UpsertInto(index, store, docs)
    /\ log' = Append(log, [lines |-> docs, ok |-> TRUE])
    /\ redo' = redo \cup (Range(docs) \cap accepted)
    /\ accepted' = accepted \cup Range(docs)
    /\ pc' = IF pc = "upsert" THEN "save" ELSE "fsave"
    /\ UNCHANGED <<store, ckpt, bsz, startLine, pos, cur, docs, maxPersisted,
                   maxBsz, afterCrash, resetGhost>>
    /\ UNCHANGED notIdx

\* IdxUpsertFail with the handler clearing the batch that failed.
IdxUpsertFail_DropBatch ==
    /\ pc \in {"upsert", "fupsert"}
    /\ log' = Append(log, [lines |-> docs, ok |-> FALSE])
    /\ pc' = IF pc = "upsert" THEN "read" ELSE "raised"
    /\ docs' = <<>>
    /\ UNCHANGED <<store, ckpt, index, bsz, startLine, pos, cur, accepted, redo,
                   maxPersisted, maxBsz, afterCrash, resetGhost>>
    /\ UNCHANGED notIdx

\* collection.upsert raises: inside the loop "except Exception" prints and
\* continues with the batch kept; after the loop the exception leaves index_papers.
IdxUpsertFail ==
    /\ pc \in {"upsert", "fupsert"}
    /\ log' = Append(log, [lines |-> docs, ok |-> FALSE])
    /\ pc' = IF pc = "upsert" THEN "read" ELSE "raised"
    /\ UNCHANGED <<store, ckpt, index, bsz, startLine, pos, cur, docs, accepted, redo,
                   maxPersisted, maxBsz, afterCrash, resetGhost>>
    /\ UNCHANGED notIdx

\* What follows _save_checkpoint: the batch is cleared in the loop; the run ends
\* after the final save.
AfterSave ==
    IF pc \in {"save", "write"}
        THEN pc' = "read" /\ docs' = <<>>
        ELSE pc' = "done" /\ UNCHANGED docs

\* _save_checkpoint, open(checkpoint_path, 'w'): the file is truncated.
IdxSaveOpen ==
    /\ pc \in {"save", "fsave"}
    /\ ckpt' = Corrupt
    /\ pc' = IF pc = "save" THEN "write" ELSE "fwrite"
    /\ UNCHANGED <<store, index, bsz, startLine, pos, cur, docs, log, accepted, redo,
                   maxPersisted, maxBsz, afterCrash, resetGhost>>
    /\ UNCHANGED notIdx

\* _save_checkpoint, open raises: the warning is printed, the file is as it was.
IdxSaveOpenFail ==
    /\ pc \in {"save", "fsave"}
    /\ AfterSave
    /\ UNCHANGED <<store, ckpt, index, bsz, startLine, pos, cur, log, accepted, redo,
                   maxPersisted, maxBsz, afterCrash, resetGhost>>
    /\ UNCHANGED notIdx

\* _save_checkpoint, json.dump and close: {"processed_lines": current_line}.
IdxSaveDump ==
    /\ pc \in {"write", "fwrite"}
    /\ ckpt' = Saved(cur)
    /\ maxPersisted' = Max(maxPersisted, cur)
    /\ AfterSave
    /\ UNCHANGED <<store, index, bsz, startLine, pos, cur, log, accepted, redo,
                   maxBsz, afterCrash, resetGhost>>
    /\ UNCHANGED notIdx

\* _save_checkpoint, the write raises: the warning is printed, the file stays
\* truncated.
IdxSaveDumpFail ==
    /\ pc \in {"write", "fwrite"}
    /\ AfterSave
    /\ UNCHANGED <<store, ckpt, index, bsz, startLine, pos, cur, log, accepted, redo,
                   maxPersisted, maxBsz, afterCrash, resetGhost>>
    /\ UNCHANGED notIdx

\* The store is exhausted: "if documents:" decides on the final upsert.
IdxEof ==
    /\ pc = "read"
    /\ pos >= Len(store)
    /\ pc' = IF docs # <<>> THEN "fupsert" ELSE "done"
    /\ UNCHANGED <<store, ckpt, index, bsz, startLine, pos, cur, docs, log, accepted,
                   redo, maxPersisted, maxBsz, afterCrash, resetGhost>>
    /\ UNCHANGED notIdx

\* The process is interrupted or killed: files and the index stay as they are.
\* Inside an upsert call any prefix of the batch may already be in the index.
IdxCrash ==
    /\ pc \in Running
    /\ pc' = "crashed"
    /\ IF pc \in {"upsert", "fupsert"}
          THEN \E k \in 0..Len(docs) :
                /\ index' = UpsertInto(index, store, SubSeq(docs, 1, k))
                /\ accepted' = accepted \cup Range(SubSeq(docs, 1, k))
          ELSE UNCHANGED <<index, accepted>>
    /\ LocalsCleared
    /\ resetGhost' = "none"
    /\ UNCHANGED <<store, ckpt, maxPersisted, maxBsz>>
    /\ UNCHANGED notIdx

\* reset_db(metadata_file): the checkpoint file is removed, the collection is
\* deleted and created again.
Reset ==
    /\ pc \in Stopped
    /\ ckpt' = Absent
    /\ index' = EmptyIndex
    /\ pc' = "idle"
    /\ LocalsCleared
    /\ accepted' = {}
    /\ maxPersisted' = 0
    /\ maxBsz' = 0
    /\ resetGhost' = "reset"
    /\ UNCHANGED store
    /\ UNCHANGED notIdx

\* What index_papers hands back: it has no return statement with a value, so
\* every call returns None.
ReturnNone == [none |-> TRUE, n |-> 0]
ReturnCount(n) == [none |-> FALSE, n |-> n]
IndexPapersReturn == ReturnNone

Next ==
    \/ StoreAppend
    \/ IdxStart
    \/ IdxReadLine
    \/ IdxUpsertOk
    \/ IdxUpsertFail
    \/ IdxSaveOpen
    \/ IdxSaveOpenFail
    \/ IdxSaveDump
    \/ IdxSaveDumpFail
    \/ IdxEof
    \/ IdxCrash
    \/ Reset

Spec == Init /\ [][Next]_vars

\* ------------------------------------------------------------ downloader
RECURSIVE Pow2(_)
Pow2(n) == IF n = 0 THEN 1 ELSE 2 * Pow2(n - 1)

\* os.path.exists / os.path.getsize of the local file.
LocalSize(f) == Len(f)

DlRunning == {"attempt", "head", "send", "wait", "open", "stream", "verify",
              "backoff"}
DlStopped == {"idle", "ok", "failed"}

\* A file that this download did not write is at local_path before the call
\* (os.path.exists(local_path)): left by another source or by an earlier
\* version of the remote file. Its bytes, 0, are none of the remote's.
DlForeignFile ==
    /\ dlPc \in DlStopped
    /\ \E n \in 1..(RemoteLen + 1) : localFile' = [i \in 1..n |-> 0]
    /\ UNCHANGED <<dlPc, maxRetries, attempt, curSize, hdr, mode, totalSize, body,
                   reqRange, gets, sleeps, status, fileAtGet, lastErr>>
    /\ UNCHANGED completeAtStart
    /\ UNCHANGED notDl

\* download_file is called: "for attempt in range(max_retries)".
DlStart ==
    /\ dlPc \in DlStopped
    /\ \E m \in 0..MaxRetries :
        /\ maxRetries' = m
        /\ dlPc' = IF m = 0 THEN "failed" ELSE "attempt"
    /\ attempt' = 0
    /\ gets' = 0
    /\ sleeps' = <<>>
    /\ UNCHANGED <<localFile, curSize, hdr, mode, totalSize, body, reqRange>>
    /\ status' = 0
    /\ fileAtGet' = <<>>
    /\ lastErr' = "none"
    /\ completeAtStart' = (localFile = Remote)
    /\ UNCHANGED notDl

\* DlAttempt with current_size read from the file in the first attempt only.
DlAttempt_StaleSize ==
    /\ dlPc = "attempt"
    /\ curSize' = IF attempt = 0 THEN LocalSize(localFile) ELSE curSize
    /\ hdr' = IF curSize' > 0 THEN curSize' ELSE NoRange
    /\ mode' = IF curSize' > 0 THEN "ab" ELSE "wb"
    /\ dlPc' = "head"
    /\ UNCHANGED <<localFile, maxRetries, attempt, totalSize, body, reqRange,
                   gets, sleeps>>
    /\ status' = 0
    /\ lastErr' = "none"
    /\ UNCHANGED fileAtGet
    /\ UNCHANGED completeAtStart
    /\ UNCHANGED notDl

\* Top of an attempt: current_size, resume_header and mode from the file on disk.
DlAttempt ==
    /\ dlPc = "attempt"
    /\ curSize' = LocalSize(localFile)
    /\ hdr' = IF LocalSize(localFile) > 0 THEN LocalSize(localFile) ELSE NoRange
    /\ mode' = IF LocalSize(localFile) > 0 THEN "ab" ELSE "wb"
    /\ dlPc' = "head"
    /\ UNCHANGED <<localFile, maxRetries, attempt, totalSize, body, reqRange,
                   gets, sleeps>>
    /\ status' = 0
    /\ lastErr' = "none"
    /\ UNCHANGED fileAtGet
    /\ UNCHANGED completeAtStart
    /\ UNCHANGED notDl

\* DlHead where a probe without a usable size fails the attempt.
DlHead_UnknownSizeFails ==
    /\ dlPc = "head"
    /\ \E t \in {0, RemoteLen} :
        /\ totalSize' = t
        /\ dlPc' = IF t = 0 THEN "backoff"
                   ELSE IF curSize >= t THEN "ok" ELSE "send"
    /\ UNCHANGED <<localFile, maxRetries, attempt, curSize, hdr, mode, body,
                   reqRange, gets, sleeps>>
    /\ UNCHANGED <<status, fileAtGet, lastErr>>
    /\ UNCHANGED completeAtStart
    /\ UNCHANGED notDl

\* DlHead where only a file longer than total_size counts as complete.
DlHead_StrictlyLonger ==
    /\ dlPc = "head"
    /\ \E t \in {0, RemoteLen} :
        /\ totalSize' = t
        /\ dlPc' = IF t > 0 /\ curSize > t THEN "ok" ELSE "send"
    /\ UNCHANGED <<localFile, maxRetries, attempt, curSize, hdr, mode, body,
                   reqRange, gets, sleeps>>
    /\ UNCHANGED <<status, fileAtGet, lastErr>>
    /\ UNCHANGED completeAtStart
    /\ UNCHANGED notDl

\* The HEAD probe: total_size is the content-length, or 0 when the probe raises,
\* answers with an error status or carries no content-length. A complete file
\* ends the call.
DlHead ==
    /\ dlPc = "head"
    /\ \E t \in {0, RemoteLen} :
        /\ totalSize' = t
        /\ dlPc' = IF t > 0 /\ curSize >= t THEN "ok" ELSE "send"
    /\ UNCHANGED <<localFile, maxRetries, attempt, curSize, hdr, mode, body,
                   reqRange, gets, sleeps>>
    /\ UNCHANGED <<status, fileAtGet, lastErr>>
    /\ UNCHANGED completeAtStart
    /\ UNCHANGED notDl

\* session.get(remote_url, stream=True, headers=resume_header) is sent.
DlGetSend ==
    /\ dlPc = "send"
    /\ reqRange' = hdr
    /\ gets' = gets + 1
    /\ dlPc' = "wait"
    /\ UNCHANGED <<localFile, maxRetries, attempt, curSize, hdr, mode, totalSize,
                   body, sleeps>>
    /\ fileAtGet' = localFile
    /\ UNCHANGED <<status, lastErr>>
    /\ UNCHANGED completeAtStart
    /\ UNCHANGED notDl

\* The GET raises, or raise_for_status() does (a Range starting at or past
\* the end of the remote file is answered 416).
DlGetError ==
    /\ dlPc = "wait"
    /\ dlPc' = "backoff"
    /\ UNCHANGED <<localFile, maxRetries, attempt, curSize, hdr, mode, totalSize,
                   body, reqRange, gets, sleeps>>
    /\ lastErr' = "net"
    /\ UNCHANGED <<status, fileAtGet>>
    /\ UNCHANGED completeAtStart
    /\ UNCHANGED notDl

\* DlGet200 with the mode of the attempt kept.
DlGet200_KeepMode ==
    /\ dlPc = "wait"
    /\ body' = Remote
    /\ \E cl \in {0, RemoteLen} :
        totalSize' = IF totalSize = 0 THEN cl ELSE totalSize
    /\ dlPc' = "open"
    /\ status' = 200
    /\ UNCHANGED <<localFile, maxRetries, attempt, curSize, hdr, mode, reqRange,
                   gets, sleeps, fileAtGet, lastErr>>
    /\ UNCHANGED completeAtStart
    /\ UNCHANGED notDl

\* Status 200: the whole file follows; current_size = 0 and mode = 'wb'.
\* An unknown total_size is taken from the response's content-length, if any.
DlGet200 ==
    /\ dlPc = "wait"
    /\ curSize' = 0
    /\ mode' = "wb"
    /\ body' = Remote
    /\ \E cl \in {0, RemoteLen} :
        totalSize' = IF totalSize = 0 THEN cl ELSE totalSize
    /\ dlPc' = "open"
    /\ UNCHANGED <<localFile, maxRetries, attempt, hdr, reqRange, gets, sleeps>>
    /\ status' = 200
    /\ UNCHANGED <<fileAtGet, lastErr>>
    /\ UNCHANGED completeAtStart
    /\ UNCHANGED notDl

\* Status 206: the bytes from the Range start follow; mode stays 'ab'.
DlGet206 ==
    /\ dlPc = "wait"
    /\ reqRange # NoRange
    /\ reqRange < RemoteLen
    /\ body' = SubSeq(Remote, reqRange + 1, RemoteLen)
    /\ \E cl \in {0, RemoteLen - reqRange} :
        totalSize' = IF totalSize = 0 /\ cl > 0 THEN cl + curSize ELSE totalSize
    /\ dlPc' = "open"
    /\ UNCHANGED <<localFile, maxRetries, attempt, curSize, hdr, mode, reqRange,
                   gets, sleeps>>
    /\ status' = 206
    /\ UNCHANGED <<fileAtGet, lastErr>>
    /\ UNCHANGED completeAtStart
    /\ UNCHANGED notDl

\* open(local_path, mode): 'wb' truncates the file, 'ab' keeps it.
DlOpen ==
    /\ dlPc = "open"
    /\ localFile' = IF mode = "wb" THEN <<>> ELSE localFile
    /\ dlPc' = "stream"
    /\ UNCHANGED <<maxRetries, attempt, curSize, hdr, mode, totalSize, body,
                   reqRange, gets, sleeps>>
    /\ UNCHANGED <<status, fileAtGet, lastErr>>
    /\ UNCHANGED completeAtStart
    /\ UNCHANGED notDl

\* f.write(data) for one block of response.iter_content.
DlWrite ==
    /\ dlPc = "stream"
    /\ body # <<>>
    /\ localFile' = Append(localFile, Head(body))
    /\ body' = Tail(body)
    /\ UNCHANGED <<dlPc, maxRetries, attempt, curSize, hdr, mode, totalSize,
                   reqRange, gets, sleeps>>
    /\ UNCHANGED <<status, fileAtGet, lastErr>>
    /\ UNCHANGED completeAtStart
    /\ UNCHANGED notDl

\* iter_content ends: the body is exhausted, or the connection was closed
\* early without an error.
DlStreamEnd ==
    /\ dlPc = "stream"
    /\ body' = <<>>
    /\ dlPc' = "verify"
    /\ UNCHANGED <<localFile, maxRetries, attempt, curSize, hdr, mode, totalSize,
                   reqRange, gets, sleeps>>
    /\ UNCHANGED <<status, fileAtGet, lastErr>>
    /\ UNCHANGED completeAtStart
    /\ UNCHANGED notDl

\* iter_content raises a RequestException in mid-stream.
DlStreamError ==
    /\ dlPc = "stream"
    /\ body' = <<>>
    /\ dlPc' = "backoff"
    /\ UNCHANGED <<localFile, maxRetries, attempt, curSize, hdr, mode, totalSize,
                   reqRange, gets, sleeps>>
    /\ lastErr' = "net"
    /\ UNCHANGED <<status, fileAtGet>>
    /\ UNCHANGED completeAtStart
    /\ UNCHANGED notDl

\* "if total_size > 0 and os.path.getsize(local_path) < total_size: raise".
DlVerify ==
    /\ dlPc = "verify"
    /\ dlPc' = IF totalSize > 0 /\ LocalSize(localFile) < totalSize
                  THEN "backoff" ELSE "ok"
    /\ UNCHANGED <<localFile, maxRetries, attempt, curSize, hdr, mode, totalSize,
                   body, reqRange, gets, sleeps>>
    /\ lastErr' = IF totalSize > 0 /\ LocalSize(localFile) < totalSize
                    THEN "net" ELSE lastErr
    /\ UNCHANGED <<status, fileAtGet>>
    /\ UNCHANGED completeAtStart
    /\ UNCHANGED notDl

\* "except Exception: ... break": an error that is no RequestException (an
\* OSError of open, write or getsize, a ValueError of int(content-length))
\* ends the retry loop at once, without a sleep.
DlUnknownError ==
    /\ dlPc \in {"head", "wait", "open", "stream", "verify"}
    /\ dlPc' = "failed"
    /\ body' = <<>>
    /\ lastErr' = "other"
    /\ UNCHANGED <<localFile, maxRetries, attempt, curSize, hdr, mode, totalSize,
                   reqRange, gets, sleeps, status, fileAtGet>>
    /\ UNCHANGED completeAtStart
    /\ UNCHANGED notDl

\* DlBackoff with one attempt more than max_retries allowed.
DlBackoff_OneMoreAttempt ==
    /\ dlPc = "backoff"
    /\ sleeps' = Append(sleeps, BaseDelay * Pow2(attempt))
    /\ attempt' = attempt + 1
    /\ dlPc' = IF attempt + 1 <= maxRetries THEN "attempt" ELSE "failed"
    /\ UNCHANGED <<localFile, maxRetries, curSize, hdr, mode, totalSize, body,
                   reqRange, gets>>
    /\ UNCHANGED <<status, fileAtGet, lastErr>>
    /\ UNCHANGED completeAtStart
    /\ UNCHANGED notDl

\* The retry handler: sleep 5 * 2 ** attempt, then the next attempt, if any.
DlBackoff ==
    /\ dlPc = "backoff"
    /\ sleeps' = Append(sleeps, BaseDelay * Pow2(attempt))
    /\ attempt' = attempt + 1
    /\ dlPc' = IF attempt + 1 < maxRetries THEN "attempt" ELSE "failed"
    /\ UNCHANGED <<localFile, maxRetries, curSize, hdr, mode, totalSize, body,
                   reqRange, gets>>
    /\ UNCHANGED <<status, fileAtGet, lastErr>>
    /\ UNCHANGED completeAtStart
    /\ UNCHANGED notDl

\* DlInterrupt with the partial file removed on the way out.
DlInterrupt_Cleanup ==
    /\ dlPc \in DlRunning
    /\ dlPc' = "idle"
    /\ body' = <<>>
    /\ localFile' = <<>>
    /\ UNCHANGED <<maxRetries, attempt, curSize, hdr, mode, totalSize,
                   reqRange, gets, sleeps, status, fileAtGet, lastErr>>
    /\ UNCHANGED completeAtStart
    /\ UNCHANGED notDl

\* KeyboardInterrupt or a kill: the call is abandoned, the file stays as it is.
DlInterrupt ==
    /\ dlPc \in DlRunning
    /\ dlPc' = "idle"
    /\ body' = <<>>
    /\ UNCHANGED <<localFile, maxRetries, attempt, curSize, hdr, mode, totalSize,
                   reqRange, gets, sleeps>>
    /\ UNCHANGED <<status, fileAtGet, lastErr>>
    /\ UNCHANGED completeAtStart
    /\ UNCHANGED notDl

DlNext ==
    \/ DlForeignFile
    \/ DlStart
    \/ DlAttempt
    \/ DlHead
    \/ DlGetSend
    \/ DlGetError
    \/ DlGet200
    \/ DlGet206
    \/ DlOpen
    \/ DlWrite
    \/ DlStreamEnd
    \/ DlStreamError
    \/ DlVerify
    \/ DlUnknownError
    \/ DlBackoff
    \/ DlInterrupt

SpecDl == Init /\ [][DlNext]_vars

\* The steps of a call in progress. Each one ends by itself: the HEAD and the
\* GET carry timeouts (30 s, 60 s), the body of the remote file is finite and
\* time.sleep returns.
DlStep ==
    \/ DlAttempt
    \/ DlHead
    \/ DlGetSend
    \/ DlGetError
    \/ DlGet200
    \/ DlGet206
    \/ DlOpen
    \/ DlWrite
    \/ DlStreamEnd
    \/ DlStreamError
    \/ DlVerify
    \/ DlUnknownError
    \/ DlBackoff

\* download_file with a call in progress always taking its next step.
SpecDlFair == SpecDl /\ WF_vars(DlStep)

\* ------------------------------------------------------------------- sync
\* "if href and href.endswith('.xml.gz')".
KeepsHref(h) == h # NoHref /\ h.gz

RECURSIVE SelectHrefs(_)
SelectHrefs(l) ==
    IF l = <<>> THEN <<>>
    ELSE IF KeepsHref(Head(l)) THEN <<Head(l)>> \o SelectHrefs(Tail(l))
    ELSE SelectHrefs(Tail(l))

\* sorted(files): x goes behind the elements of the sorted s that are not
\* greater than it.
InsertSorted(x, s) ==
    LET k == Cardinality({i \in 1..Len(s) : s[i].name <= x.name})
    IN  SubSeq(s, 1, k) \o <<x>> \o SubSeq(s, k + 1, Len(s))

RECURSIVE Sorted(_)
Sorted(s) ==
    IF s = <<>> THEN <<>>
    ELSE InsertSorted(s[Len(s)], Sorted(SubSeq(s, 1, Len(s) - 1)))

\* get_file_list without the sort.
GetFileList_Unsorted(p) == IF p.ok THEN SelectHrefs(p.links) ELSE <<>>

\* get_file_list: the kept hrefs, sorted; [] when the request raises a
\* RequestException (raise_for_status included).
GetFileList(p) == IF p.ok THEN Sorted(SelectHrefs(p.links)) ELSE <<>>

\* "if limit and count >= limit": None and 0 are both false.
LimitReached(lim, c) == lim.given /\ lim.n # 0 /\ c >= lim.n

\* sync_files(limit) is called: the listing, then "if not files: return".
\* Every variable of sync_files is a local, so one call stands for every call.
SyncList ==
    /\ syncPc = "idle"
    /\ \E lim \in Limits, p \in Pages :
        /\ limit' = lim
        /\ page' = p
        /\ files' = GetFileList(p)
        /\ syncPc' = IF GetFileList(p) = <<>> THEN "done" ELSE "loop"
    /\ listGets' = 1
    /\ count' = 0
    /\ successCount' = 0
    /\ failCount' = 0
    /\ tried' = <<>>
    /\ UNCHANGED notSync

\* SyncDownload where a failed download ends the loop.
SyncDownload_AbortOnFail ==
    /\ syncPc = "loop"
    /\ count < Len(files)
    /\ ~LimitReached(limit, count)
    /\ \E ok \in BOOLEAN :
        /\ tried' = Append(tried, [file |-> files[count + 1], ok |-> ok])
        /\ successCount' = IF ok THEN successCount + 1 ELSE successCount
        /\ failCount' = IF ok THEN failCount ELSE failCount + 1
        /\ syncPc' = IF ok THEN "loop" ELSE "done"
    /\ count' = count + 1
    /\ UNCHANGED <<page, files, limit, listGets>>
    /\ UNCHANGED notSync

\* One turn of "for file in files": download_file returns local_path or None.
SyncDownload ==
    /\ syncPc = "loop"
    /\ count < Len(files)
    /\ ~LimitReached(limit, count)
    /\ \E ok \in BOOLEAN :
        /\ tried' = Append(tried, [file |-> files[count + 1], ok |-> ok])
        /\ successCount' = IF ok THEN successCount + 1 ELSE successCount
        /\ failCount' = IF ok THEN failCount ELSE failCount + 1
    /\ count' = count + 1
    /\ UNCHANGED <<page, files, syncPc, limit, listGets>>
    /\ UNCHANGED notSync

\* The loop ends: the files are exhausted, or "break" on the limit.
SyncEnd ==
    /\ syncPc = "loop"
    /\ count >= Len(files) \/ LimitReached(limit, count)
    /\ syncPc' = "done"
    /\ UNCHANGED <<page, files, limit, count, successCount, failCount, tried,
                   listGets>>
    /\ UNCHANGED notSync

\* KeyboardInterrupt in the loop: do_sync reports the cancellation.
SyncInterrupt ==
    /\ syncPc = "loop"
    /\ syncPc' = "stopped"
    /\ UNCHANGED <<page, files, limit, count, successCount, failCount, tried,
                   listGets>>
    /\ UNCHANGED notSync

SyncNext ==
    \/ SyncList
    \/ SyncDownload
    \/ SyncEnd
    \/ SyncInterrupt

SpecSync == Init /\ [][SyncNext]_vars

\* ------------------------------------------------------------------ parse
\* parse_article: None (here <<>>) without MedlineCitation, without Article
\* or when the extraction raises ("except Exception: return None"), else the
\* record, as the store line it becomes.
ParseArticle(e) ==
    IF ~e.medline THEN <<>>
    ELSE IF ~e.article THEN <<>>
    ELSE IF e.raises THEN <<>>
    ELSE <<[enc |-> TRUE, json |-> TRUE, pmid |-> e.pmid, text |-> e.text]>>

\* ProcessFile where an element whose extraction raises ends the archive.
RECURSIVE ProcessFile_RaiseEndsArchive(_)
ProcessFile_RaiseEndsArchive(elems) ==
    IF elems = <<>> THEN <<>>
    ELSE IF Head(elems).broken \/ Head(elems).raises THEN <<>>
    ELSE ParseArticle(Head(elems)) \o ProcessFile_RaiseEndsArchive(Tail(elems))

\* process_file: the lines it appends for the elements of one archive; an
\* exception of the iterator ends the archive ("except Exception").
RECURSIVE ProcessFile(_)
ProcessFile(elems) ==
    IF elems = <<>> THEN <<>>
    ELSE IF Head(elems).broken THEN <<>>
    ELSE ParseArticle(Head(elems)) \o ProcessFile(Tail(elems))

\* SortedFiles in descending order of the names.
RECURSIVE SortedFiles_Descending(_)
SortedFiles_Descending(S) ==
    IF S = {} THEN <<>>
    ELSE LET f == CHOOSE x \in S : \A y \in S : x.name >= y.name
         IN  <<f>> \o SortedFiles_Descending(S \ {f})

\* sorted([f for f in os.listdir(raw_dir) if f.endswith(".xml.gz")]).
RECURSIVE SortedFiles(_)
SortedFiles(S) ==
    IF S = {} THEN <<>>
    ELSE LET f == CHOOSE x \in S : \A y \in S : x.name <= y.name
         IN  <<f>> \o SortedFiles(S \ {f})

ArchiveFiles(dir) == SortedFiles({f \in dir : f.gz})

RECURSIVE ElemCount(_)
ElemCount(dir) ==
    IF dir = {} THEN 0
    ELSE LET f == CHOOSE x \in dir : TRUE
         IN  Len(f.elems) + ElemCount(dir \ {f})

StoreNow(e, l) == [exists |-> e, lines |-> l]

\* The last two results, with r the latest.
Keep2(rs, r) == IF Len(rs) < 2 THEN Append(rs, r) ELSE <<rs[2], r>>

ParseStopped == {"idle", "done", "stopped"}

\* A file appears in raw_dir (sync_files downloads one, or anything else
\* puts one there).
DirPut ==
    /\ ppc \in ParseStopped
    /\ \E n \in 1..MaxArchives, g \in BOOLEAN,
          es \in ElemSeqs(MaxElems - ElemCount(rawDir)) :
        /\ \A f \in rawDir : f.name # n
        /\ rawDir' = rawDir \cup {[name |-> n, gz |-> g, elems |-> es]}
    /\ results' = <<>>
    /\ UNCHANGED <<store, storeExists, ppc, pfiles>>
    /\ UNCHANGED notParse

\* ParseStart with the store of the earlier run left in place.
ParseStart_KeepStore ==
    /\ ppc \in ParseStopped
    /\ pfiles' = ArchiveFiles(rawDir)
    /\ ppc' = IF ArchiveFiles(rawDir) = <<>> THEN "done" ELSE "files"
    /\ results' = IF ArchiveFiles(rawDir) = <<>>
                    THEN Keep2(results, StoreNow(storeExists, store))
                    ELSE results
    /\ UNCHANGED <<rawDir, store, storeExists>>
    /\ UNCHANGED notParse

\* parse_all is called: the store is removed, the archives are listed;
\* "if not files: return".
ParseStart ==
    /\ ppc \in ParseStopped
    /\ store' = <<>>
    /\ storeExists' = FALSE
    /\ pfiles' = ArchiveFiles(rawDir)
    /\ ppc' = IF ArchiveFiles(rawDir) = <<>> THEN "done" ELSE "files"
    /\ results' = IF ArchiveFiles(rawDir) = <<>>
                    THEN Keep2(results, StoreNow(FALSE, <<>>))
                    ELSE results
    /\ UNCHANGED rawDir
    /\ UNCHANGED notParse

\* process_file for the next archive: open(output_file, "a") creates the
\* store, the records of the archive are appended.
ParseFile ==
    /\ ppc = "files"
    /\ store' = store \o ProcessFile(Head(pfiles).elems)
    /\ storeExists' = TRUE
    /\ pfiles' = Tail(pfiles)
    /\ ppc' = IF Tail(pfiles) = <<>> THEN "done" ELSE "files"
    /\ results' = IF Tail(pfiles) = <<>>
                    THEN Keep2(results, StoreNow(TRUE, store'))
                    ELSE results
    /\ UNCHANGED rawDir
    /\ UNCHANGED notParse

\* KeyboardInterrupt between two archives: do_parse reports the cancellation.
ParseInterrupt ==
    /\ ppc = "files"
    /\ ppc' = "stopped"
    /\ pfiles' = <<>>
    /\ results' = <<>>
    /\ UNCHANGED <<rawDir, store, storeExists>>
    /\ UNCHANGED notParse

ParseNext ==
    \/ DirPut
    \/ ParseStart
    \/ ParseFile
    \/ ParseInterrupt

SpecParse == Init /\ [][ParseNext]_vars

\* ------------------------------------------------------------ identifiers
\* parse_article reaches the identifier scan: doi = "", pmcid = "".
\* The scan keeps nothing between records, so one record stands for all.
IdScanStart ==
    /\ idPc = "idle"
    /\ \E l \in IdLists : idList' = l
    /\ idPos' = 0
    /\ doi' = ""
    /\ pmcid' = ""
    /\ idPc' = "scan"
    /\ UNCHANGED notIds

\* One turn of "for article_id in article_id_list.findall('ArticleId')".
IdScanStep ==
    /\ idPc = "scan"
    /\ idPos < Len(idList)
    /\ idPos' = idPos + 1
    /\ doi' = IF idList[idPos + 1].type = "doi"
                THEN idList[idPos + 1].value ELSE doi
    /\ pmcid' = IF idList[idPos + 1].type = "pmc"
                  THEN idList[idPos + 1].value ELSE pmcid
    /\ UNCHANGED <<idList, idPc>>
    /\ UNCHANGED notIds

\* The loop ends; doi and pmcid go into the record.
IdScanEnd ==
    /\ idPc = "scan"
    /\ idPos >= Len(idList)
    /\ idPc' = "done"
    /\ UNCHANGED <<idList, idPos, doi, pmcid>>
    /\ UNCHANGED notIds

IdsNext ==
    \/ IdScanStart
    \/ IdScanStep
    \/ IdScanEnd

SpecIds == Init /\ [][IdsNext]_vars

\* ------------------------------------------------------------------ query
\* "keyword.lower() in text" for a line json.loads has decoded.
Matches(line, kw) == line.json /\ (kw = "" \/ (line.text /\ line.pmid = kw))

\* The keyword loop of find_candidates over lines i..upto of s: a match is
\* appended (as its line number), then "if count >= limit: break".
RECURSIVE KeywordScan(_, _, _, _, _, _)
KeywordScan(s, kw, lim, i, upto, acc) ==
    IF i > upto THEN acc
    ELSE IF Matches(s[i], kw)
        THEN IF Len(acc) + 1 >= lim THEN Append(acc, i)
             ELSE KeywordScan(s, kw, lim, i + 1, upto, Append(acc, i))
    ELSE KeywordScan(s, kw, lim, i + 1, upto, acc)

\* How far the loop can get in s: to the end, or to the line before which
\* the file iterator raises UnicodeDecodeError; the outer "except Exception"
\* then returns the matches found so far.
ReadStops(s) ==
    {r \in 0..Len(s) :
        /\ \A j \in 1..r : s[j].enc
        /\ r < Len(s) => MayRaiseAt(s, r + 1)}

\* collection.query(n_results=limit): the ids of the index in some rank
\* order, limit of them or all there are.
VectorResults(idx, lim) ==
    {r \in UNION {[1..n -> Ids] : n \in 0..Cardinality(Ids)} :
        /\ \A i \in 1..Len(r) : idx[r[i]] > 0
        /\ \A i, j \in 1..Len(r) : r[i] = r[j] => i = j
        /\ Len(r) = Min(lim, Cardinality({id \in Ids : idx[id] > 0}))}

\* find_candidates(keyword, limit, use_vector). initOk: VectorStore() can be
\* constructed; searchOk: vs.search returns.
FindCandidates ==
    \E kw \in Keywords, lim \in 0..MaxLimit, uv \in BOOLEAN,
       initOk \in BOOLEAN, searchOk \in BOOLEAN, upto \in ReadStops(store) :
        LET vs == uv /\ (vectorStore = "ready" \/ initOk)
        IN  /\ vectorStore' = IF vs THEN "ready" ELSE vectorStore
            /\ qCall' = [keyword |-> kw, limit |-> lim, useVector |-> uv,
                         vsFailed |-> uv /\ ~vs,
                         searchRaised |-> vs /\ ~searchOk]
            /\ IF vs /\ searchOk
                  THEN \E r \in VectorResults(index, lim) :
                        qResult' =
                            [raised |-> FALSE, from |-> "vector", hits |-> r]
                  ELSE qResult' =
                        [raised |-> FALSE, from |-> "keyword",
                         hits |-> IF storeExists
                                    THEN KeywordScan(store, kw, lim, 1, upto, <<>>)
                                    ELSE <<>>]
            /\ UNCHANGED notQuery

QueryNext ==
    \/ StoreAppend
    \/ FindCandidates

SpecQuery == Init /\ [][QueryNext]_vars

\* ------------------------------------------------------ VectorStore.query
\* A stored document, by its pieces: "M" stands for the text "Abstract: ",
\* "T" for "Title: ", the others for text without the marker. index_papers
\* writes "Title: <title>\nAbstract: <abstract>"; an abstract may itself
\* hold the marker, and a document of another writer may hold none.
VqDocs ==
    {<<"T", "x">>, <<"T", "x", "M">>, <<"T", "x", "M", "y">>,
     <<"T", "x", "M", "y", "M", "z">>}

\* A metadata mapping, by its title; NoKey: the mapping has no "title".
NoKey == "NoKey"
VqTitles == {NoKey, "t", "u"}

\* One position of results['ids'][0], ['metadatas'][0] and ['documents'][0].
VqHits == [id : Ids, meta : VqTitles, doc : VqDocs]
VqResults == UNION {[1..n -> VqHits] : n \in 0..MaxHits}

\* doc_text.split("Abstract: ", 1)[1] when the marker is in doc_text, else "".
RECURSIVE AbstractOf(_)
AbstractOf(d) ==
    IF d = <<>> THEN <<>>
    ELSE IF Head(d) = "M" THEN Tail(d)
    ELSE AbstractOf(Tail(d))

\* meta.get("title", "").
MetaGet(m) == IF m = NoKey THEN "" ELSE m

\* The candidate dict built in the loop body.
Candidate(docId, meta, docText) ==
    [pmid |-> docId, title |-> MetaGet(meta), abstract |-> AbstractOf(docText)]

\* query(query, limit) is called on a VectorStore of either module.
VqCall ==
    /\ vqPc = "idle"
    /\ vqVariant' \in VqVariants
    /\ vqPc' = "asked"
    /\ UNCHANGED <<vqRes, vqPos, vqCands>>
    /\ UNCHANGED notVq

\* collection.query returns; "if not results['ids']: return candidates".
\* outer: results['ids'] is a non-empty list of lists.
VqAnswer ==
    /\ vqPc = "asked"
    /\ \E r \in VqResults, outer \in BOOLEAN :
        /\ vqRes' = IF outer THEN r ELSE <<>>
        /\ vqPc' = IF outer THEN "loop" ELSE "returned"
    /\ vqPos' = 0
    /\ vqCands' = <<>>
    /\ UNCHANGED vqVariant
    /\ UNCHANGED notVq

\* collection.query raises; query has no handler, the caller gets the error.
VqAnswerRaises ==
    /\ vqPc = "asked"
    /\ vqPc' = "index raised"
    /\ UNCHANGED <<vqVariant, vqRes, vqPos, vqCands>>
    /\ UNCHANGED notVq

\* One pass of "for i, doc_id in enumerate(ids)". src/vector_store.py reads
\* metas[i]; vector_store.py reads metadatas[i], a name bound nowhere in
\* query or in the module: NameError.
VqStep ==
    /\ vqPc = "loop"
    /\ vqPos < Len(vqRes)
    /\ IF vqVariant = "src/vector_store.py"
          THEN /\ vqCands' = Append(vqCands,
                        Candidate(vqRes[vqPos + 1].id, vqRes[vqPos + 1].meta,
                                  vqRes[vqPos + 1].doc))
               /\ vqPos' = vqPos + 1
               /\ vqPc' = "loop"
          ELSE /\ vqPc' = "raised"
               /\ UNCHANGED <<vqPos, vqCands>>
    /\ UNCHANGED <<vqVariant, vqRes>>
    /\ UNCHANGED notVq

\* "return candidates".
VqReturn ==
    /\ vqPc = "loop"
    /\ vqPos = Len(vqRes)
    /\ vqPc' = "returned"
    /\ UNCHANGED <<vqVariant, vqRes, vqPos, vqCands>>
    /\ UNCHANGED notVq

VqNext ==
    \/ VqCall
    \/ VqAnswer
    \/ VqAnswerRaises
    \/ VqStep
    \/ VqReturn

SpecVq == Init /\ [][VqNext]_vars

\* --------------------------------------------------------------- pipeline
\* The shell runs one command at a time: parse (do_parse) and index
\* (do_index) in any order, each to its end, with raw_dir growing in between.
\* No step fails and nothing is interrupted.
PipeDirPut == pc \in Stopped /\ DirPut
PipeParseStart == pc \in Stopped /\ ParseStart
PipeParseFile == pc \in Stopped /\ ParseFile
PipeIdxStart == ppc \in ParseStopped /\ IdxStart /\ pc' = "read"
PipeIdxReadLine == IdxReadLine /\ pc' # "raised"
PipeIdxUpsertOk == IdxUpsertOk
PipeIdxSaveOpen == IdxSaveOpen
PipeIdxSaveDump == IdxSaveDump
PipeIdxEof == IdxEof

PipeNext ==
    \/ PipeDirPut
    \/ PipeParseStart
    \/ PipeParseFile
    \/ PipeIdxStart
    \/ PipeIdxReadLine
    \/ PipeIdxUpsertOk
    \/ PipeIdxSaveOpen
    \/ PipeIdxSaveDump
    \/ PipeIdxEof

SpecPipe == Init /\ [][PipeNext]_vars

\* ----------------------------------------------------------------- claims
InRun == pc \in Running \cup {"done"}

\* C1: crash-resume idempotency. When index_papers runs to completion,
\* whatever happened to earlier runs and wherever the checkpoint stood, the
\* index holds exactly the ids of the valid records of the store, each once.
C1_CrashResumeIdempotent ==
    pc = "done" =>
        \A id \in Ids : index[id] = IF id \in ValidIds(store) THEN 1 ELSE 0

C1_Witness ==
    /\ pc = "done"
    /\ afterCrash
    /\ startLine > 0
    /\ OkLines(log) # {}
    /\ ValidIds(store) = Ids

\* C2: checkpoint-after-upsert ordering. Whenever a checkpoint value p written
\* by this run is on disk, every valid record this run read on lines <= p was
\* passed to an upsert call that returned.
C2_CheckpointAfterUpsert ==
    (InRun /\ ckpt.st = "ok") =>
        ValidLines(store, startLine, ckpt.n) \subseteq OkLines(log)

C2_Witness ==
    /\ pc = "read"
    /\ ckpt.st = "ok"
    /\ ckpt.n > startLine
    /\ \E i \in 1..Len(log) : ~log[i].ok
    /\ OkLines(log) # {}

\* C3: the persisted processed_lines never decreases: a checkpoint on disk is
\* never smaller than one that was fully written earlier for the same store.
C3_CheckpointMonotone ==
    ckpt.st = "ok" => ckpt.n >= maxPersisted

\* C4: batch count law. A completed run that read N accepted records with
\* batch size B issued exactly ceil(N / B) upsert calls.
C4_BatchCountLaw ==
    pc = "done" =>
        Len(log) = Ceil(Cardinality(ValidLines(store, startLine, pos)), bsz)

\* C5: after a completed run the persisted checkpoint equals the number of
\* store lines read so far, valid or skipped.
C5_FinalCheckpointIsLinesRead ==
    pc = "done" => LoadCheckpoint(ckpt) = cur

\* C6: incremental indexing. A run that starts from checkpoint p passes to
\* upsert no record on a line <= p and nothing but valid records, and when it
\* completes it has upserted exactly the valid records on the lines > p.
C6_Incremental ==
    /\ InRun => SentLines(log) \subseteq ValidLines(store, startLine, Len(store))
    /\ pc = "done" => OkLines(log) = ValidLines(store, startLine, Len(store))

C6_Witness ==
    /\ pc = "done"
    /\ ~afterCrash
    /\ Len(store) = 3
    /\ startLine = 2
    /\ ValidLines(store, 0, 2) # {}
    /\ OkLines(log) = {3}

\* C7: malformed-record skip. A line with invalid encoding, unparsable, without
\* id or without title and abstract is never passed to upsert and does not
\* abort the run: index_papers raises only when the final upsert failed.
C7_MalformedSkipped ==
    /\ \A i \in SentLines(log) : Valid(store[i])
    /\ pc = "raised" => (log # <<>> /\ ~log[Len(log)].ok)

C9_ReprocessAtMostOneBatch ==
    Cardinality(redo) <= maxBsz

\* C10: resume offset. While a GET of download_file is in flight - in the
\* first attempt, a retry, or the first attempt after a restart - its Range
\* starts at the size the local file has at that moment, and there is no Range
\* header when the file is empty or absent.
C10_ResumeOffset ==
    dlPc = "wait" =>
        reqRange = IF Len(localFile) > 0 THEN Len(localFile) ELSE NoRange

C10_Witness ==
    /\ dlPc = "wait"
    /\ attempt > 0
    /\ Len(localFile) = 2
    /\ reqRange = 2

C12_CompleteFileSkipsGet ==
    [][(/\ dlPc = "head"
        /\ dlPc' \in {"ok", "send"}
        /\ totalSize' > 0
        /\ LocalSize(localFile) >= totalSize')
            => (dlPc' = "ok" /\ gets' = gets /\ localFile' = localFile)]_vars

C12_Witness ==
    /\ dlPc = "ok"
    /\ status = 0
    /\ gets = 0
    /\ totalSize > 0
    /\ localFile = Remote

\* C13: while the body of a GET is written, a 200 answer has discarded the
\* bytes the file held and the file holds the body from offset 0; a 206
\* answer has kept every byte the file held and the body follows them.
C13_RangeHandling ==
    dlPc \in {"stream", "verify"} =>
        /\ status = 200 => localFile = SubSeq(Remote, 1, Len(localFile))
        /\ status = 206 =>
            /\ Len(localFile) >= Len(fileAtGet)
            /\ SubSeq(localFile, 1, Len(fileAtGet)) = fileAtGet
            /\ \A i \in (Len(fileAtGet) + 1)..Len(localFile) :
                    localFile[i] = Remote[i]

C13_Witness ==
    /\ dlPc = "verify"
    /\ status = 200
    /\ fileAtGet = <<0>>
    /\ localFile = Remote

\* C14: download_file returns failure only after max_retries attempts were
\* made and each of them failed and was followed by a backoff sleep.
C14_FailureOnlyAfterAllRetries ==
    dlPc = "failed" => (attempt = maxRetries /\ Len(sleeps) = maxRetries)

\* The number of files a sync with this limit is to attempt, of n listed.
SelectedCount(lim, n) == IF lim.given THEN Min(lim.n, n) ELSE n

Occurrences(s, x) == Cardinality({i \in 1..Len(s) : s[i] = x})

\* C15: when sync_files ends, the files it attempted are the listed files in
\* sorted order, each once, none of the selected ones left out whatever
\* failed before it, and success_count + fail_count is their number.
C15_FailureIsolation ==
    syncPc = "done" =>
        /\ Len(tried) <= Len(files)
        /\ \A i \in 1..Len(tried) : tried[i].file = files[i]
        /\ Len(tried) >= SelectedCount(limit, Len(files))
        /\ successCount = Cardinality({i \in 1..Len(tried) : tried[i].ok})
        /\ failCount = Cardinality({i \in 1..Len(tried) : ~tried[i].ok})
        /\ successCount + failCount = Len(tried)
        /\ count = Len(tried)

C15_Witness ==
    /\ syncPc = "done"
    /\ Len(files) >= 2
    /\ Len(tried) = Len(files)
    /\ ~tried[1].ok
    /\ tried[2].ok

\* C16: for every limit >= 0 sync_files attempts min(limit, number listed)
\* files, the first ones of the sorted listing; without a limit, all of them.
C16_LimitLaw ==
    syncPc = "done" =>
        /\ Len(tried) = SelectedCount(limit, Len(files))
        /\ \A i \in 1..Len(tried) : tried[i].file = files[i]

\* C17: get_file_list returns the hrefs of the page that end in .xml.gz,
\* each as often as the page has it, in sorted order; when the listing
\* request fails it returns the empty list after that one request, and
\* sync_files ends without a download.
C17_Listing ==
    syncPc # "idle" =>
        /\ page.ok =>
            /\ \A i \in 1..(Len(files) - 1) : files[i].name <= files[i + 1].name
            /\ \A h \in Hrefs :
                Occurrences(files, h) =
                    IF h # NoHref /\ h.gz THEN Occurrences(page.links, h) ELSE 0
        /\ ~page.ok => (files = <<>> /\ listGets = 1)
        /\ files = <<>> => (syncPc = "done" /\ tried = <<>>)

C17_Witness ==
    /\ syncPc = "done"
    /\ page.ok
    /\ page.links = <<Href(2, TRUE), Href(1, FALSE), Href(1, TRUE)>>
    /\ files = <<Href(1, TRUE), Href(2, TRUE)>>

\* C18: two runs of parse_all in a row over an unchanged raw_dir leave the
\* store with the same content, whatever it held before the first of them.
C18_ParseTwiceSameStore ==
    Len(results) = 2 => results[1] = results[2]

C18_Witness ==
    /\ ppc = "done"
    /\ Len(results) = 2
    /\ Len(ArchiveFiles(rawDir)) = 2
    /\ Len(results[2].lines) = 2
    /\ store = results[2].lines

\* C19: an element without a usable id, without MedlineCitation or without
\* Article gets no line, so every line of the store written by parse_all has
\* a non-empty id.
C19_StoreIdsNonEmpty ==
    \A i \in 1..Len(store) : store[i].pmid # ""

\* C20: an interrupt of download_file leaves the local file with the bytes
\* written so far, and a call reads its resume offset from the size of the
\* file on disk.
C20_InterruptKeepsPartialFile ==
    [][/\ (dlPc \in DlRunning /\ dlPc' = "idle") => localFile' = localFile
       /\ (dlPc = "attempt" /\ dlPc' = "head") =>
            /\ curSize' = LocalSize(localFile)
            /\ hdr' = IF LocalSize(localFile) > 0
                        THEN LocalSize(localFile) ELSE NoRange]_vars

C20_Witness ==
    /\ dlPc = "idle"
    /\ Len(localFile) > 0
    /\ Len(localFile) < RemoteLen
    /\ localFile[1] = 1

\* C21: after an interrupt of a run, the next run resumes from the checkpoint
\* persisted last: once a checkpoint was persisted, an interrupted run leaves
\* a readable checkpoint file and the run after it does not start at line 0.
C21_InterruptKeepsResumePoint ==
    [][/\ (pc' = "crashed" /\ maxPersisted' > 0) => ckpt'.st = "ok"
       /\ (pc = "crashed" /\ maxPersisted > 0 /\ pc' = "read") =>
            (startLine' = ckpt.n /\ startLine' > 0)]_vars

\* C22: a failed upsert call ends the run with the failure raised to the
\* caller, and no checkpoint of the run covers a record of a batch that
\* failed and was not upserted since.
C22_UpsertFailureSurfaced ==
    /\ (\E i \in 1..Len(log) : ~log[i].ok) => pc = "raised"
    /\ (InRun /\ ckpt.st = "ok" /\ ckpt.n > startLine) =>
            \A i \in 1..Len(log) :
                ~log[i].ok =>
                    \A k \in Range(log[i].lines) :
                        k <= ckpt.n => k \in OkLines(log)

\* C24: a completed index_papers run returns the number of records it newly
\* indexed.
C24_ReturnsIndexedCount ==
    pc = "done" => IndexPapersReturn = ReturnCount(Cardinality(OkLines(log)))

\* C25: whenever an index_papers run completes, after any sequence of
\* parse_all and index_papers runs, every valid record of the store as it is
\* then has been upserted: its id is in the index.
C25_AtLeastOnceAcrossRuns ==
    [][(pc # "done" /\ pc' = "done") =>
        \A i \in 1..Len(store') :
            Accepts(store'[i]) => index'[store'[i].pmid] = 1]_vars

RECURSIVE ConcatBatches(_)
ConcatBatches(l) ==
    IF l = <<>> THEN <<>> ELSE Head(l).lines \o ConcatBatches(Tail(l))

RECURSIVE AcceptedAfter(_, _)
AcceptedAfter(s, from) ==
    IF from >= Len(s) THEN <<>>
    ELSE (IF Accepts(s[from + 1]) THEN <<from + 1>> ELSE <<>>)
            \o AcceptedAfter(s, from + 1)

\* C26: in a completed run the batches of the upsert calls, in call order,
\* are the valid records after the starting checkpoint in store order, none
\* twice, cut into batches of batch_size with a shorter last one: a function
\* of the store, the starting checkpoint and batch_size.
C26_IndexingOrder ==
    pc = "done" =>
        /\ ConcatBatches(log) = AcceptedAfter(store, startLine)
        /\ \A i \in 1..Len(log) :
                Len(log[i].lines) = IF i < Len(log) THEN bsz
                                     ELSE Len(AcceptedAfter(store, startLine))
                                            - (Len(log) - 1) * bsz

\* The elements of an archive that become a line: those with MedlineCitation
\* and Article whose extraction does not raise, up to the point where the
\* archive is damaged.
Yields(e) == e.medline /\ e.article /\ ~e.raises
Readable(elems, i) == \A j \in 1..i : ~elems[j].broken
LineOf(e) == [enc |-> TRUE, json |-> TRUE, pmid |-> e.pmid, text |-> e.text]

RECURSIVE RecordsFrom(_, _)
RecordsFrom(elems, i) ==
    IF i > Len(elems) THEN <<>>
    ELSE (IF Yields(elems[i]) /\ Readable(elems, i) THEN <<LineOf(elems[i])>>
          ELSE <<>>) \o RecordsFrom(elems, i + 1)

RECURSIVE ExpectedStore(_, _)
ExpectedStore(dir, n) ==
    IF n > MaxArchives THEN <<>>
    ELSE (IF \E f \in dir : f.name = n /\ f.gz
            THEN RecordsFrom((CHOOSE f \in dir : f.name = n /\ f.gz).elems, 1)
            ELSE <<>>) \o ExpectedStore(dir, n + 1)

\* parse_all has completed and raw_dir is as that run found it.
ParsedNow == ppc = "done" /\ results # <<>>

\* C27: when parse_all ends, the store is the records of the .xml.gz
\* archives of raw_dir, archive after archive in sorted name order and in
\* document order within an archive, and nothing else: no line of an earlier
\* parse is left.
C27_StoreIsSortedConcatenation ==
    ParsedNow =>
        /\ store = ExpectedStore(rawDir, 1)
        /\ storeExists = (\E f \in rawDir : f.gz)

C27_Witness ==
    /\ ParsedNow
    /\ \E f \in rawDir : f.name = 1 /\ f.gz /\ f.elems = <<OtherElem>>
    /\ \E f \in rawDir : f.name = 2 /\ f.gz /\ f.elems = <<OkElem>>
    /\ store = <<LineOf(OtherElem), LineOf(OkElem)>>

\* C28: an element whose extraction raises gets no line, and every element
\* behind it in the same archive and every archive behind its archive is
\* still decoded and written.
C28_RaisingRecordDropped ==
    (/\ ParsedNow
     /\ \E f \in rawDir : f.gz /\ \E i \in 1..Len(f.elems) : f.elems[i].raises) =>
        /\ \A f \in rawDir : \A j \in 1..Len(f.elems) :
                (f.gz /\ Yields(f.elems[j]) /\ Readable(f.elems, j)) =>
                    \E k \in 1..Len(store) : store[k] = LineOf(f.elems[j])
        /\ Len(store) = Len(ExpectedStore(rawDir, 1))

C28_Witness ==
    /\ ParsedNow
    /\ \E f \in rawDir : f.gz /\ f.elems = <<RaisingElem, OtherElem>>
    /\ store = <<LineOf(OtherElem)>>

\* C23: when find_candidates is called with use_vector=True and the vector
\* store cannot be set up or its search raises, the call does not raise and
\* hands back the keyword search over the store: matching records only, in
\* store order, at most limit of them.
C23_QueryFallback ==
    (qCall.useVector /\ (qCall.vsFailed \/ qCall.searchRaised)) =>
        /\ ~qResult.raised
        /\ qResult.from = "keyword"
        /\ \A i \in 1..Len(qResult.hits) :
                /\ qResult.hits[i] \in 1..Len(store)
                /\ Matches(store[qResult.hits[i]], qCall.keyword)
        /\ \A i \in 1..(Len(qResult.hits) - 1) :
                qResult.hits[i] < qResult.hits[i + 1]
        /\ Len(qResult.hits) <= qCall.limit

\* The value of the first entry of type t in l, "" when there is none.
FirstOfType(l, t) ==
    IF \E i \in 1..Len(l) : l[i].type = t
        THEN l[CHOOSE i \in 1..Len(l) :
                /\ l[i].type = t
                /\ \A j \in 1..(i - 1) : l[j].type # t].value
        ELSE ""

\* C29: the doi and the pmcid of a record are the values of the first entry
\* of type doi and of type pmc in its identifier list.
C29_FirstMatchWins ==
    idPc = "done" =>
        /\ doi = FirstOfType(idList, "doi")
        /\ pmcid = FirstOfType(idList, "pmc")

\* C30: a HEAD probe that raises or answers with an error status leaves
\* total_size at 0 and the attempt goes on: no completeness test ends it, no
\* retry is used up, no backoff sleep is made, and the GET is sent next.
C30_FailedProbeStillGets ==
    [][/\ (dlPc = "head" /\ totalSize' = 0 /\ dlPc' \notin {"head", "idle", "failed"})
            => (/\ dlPc' = "send"
                /\ attempt' = attempt
                /\ sleeps' = sleeps
                /\ lastErr' = "none")
       /\ dlPc = "send" => (dlPc' \in {"wait", "idle"} /\ attempt' = attempt)]_vars

C30_Witness ==
    /\ dlPc = "wait"
    /\ totalSize = 0
    /\ attempt = 0
    /\ sleeps = <<>>
    /\ gets = 1
    /\ Len(localFile) >= RemoteLen

\* C31: the sleep made after the failed attempt number n lasts
\* BaseDelay * 2^n, each sleep lasts twice the one before it, and after a
\* sleep the call goes on to another attempt.
C31_BackoffThenAttempt ==
    [][Len(sleeps') > Len(sleeps) =>
        /\ Len(sleeps') = Len(sleeps) + 1
        /\ Len(sleeps) = attempt
        /\ sleeps'[Len(sleeps')] = BaseDelay * Pow2(attempt)
        /\ Len(sleeps) > 0 => sleeps'[Len(sleeps')] = 2 * sleeps[Len(sleeps)]
        /\ dlPc' = "attempt"]_vars

\* C32: when the index has answered, query does not raise and returns one
\* candidate per id of the answer, in the order of the answer, each built
\* from the id, the metadata and the document at its own position.
C32_QueryBuildsCandidates ==
    /\ vqPc # "raised"
    /\ vqPc = "returned" =>
        /\ Len(vqCands) = Len(vqRes)
        /\ \A i \in 1..Len(vqRes) :
            vqCands[i] = Candidate(vqRes[i].id, vqRes[i].meta, vqRes[i].doc)

\* C33: every upsert call of a run carries at least one record and at most
\* batch_size records, the calls made after a failed upsert included.
C33_BatchWithinBatchSize ==
    \A i \in 1..Len(log) :
        /\ Len(log[i].lines) >= 1
        /\ Len(log[i].lines) <= bsz

\* C34: a call that begins with the whole remote content in the local file
\* ends in success with the file as it was, whatever the probe and the GET
\* are answered (errors of the local system apart).
C34_CompleteFileIdempotent ==
    [][(/\ completeAtStart'
        /\ dlPc \in DlRunning
        /\ dlPc' \in {"ok", "failed"}
        /\ lastErr' # "other")
            => (dlPc' = "ok" /\ localFile' = Remote)]_vars

\* C35: a call of download_file sends at most max_retries GET requests and
\* makes at most max_retries backoff sleeps, and it comes to an end.
C35_Terminates ==
    /\ [](gets <= maxRetries /\ Len(sleeps) <= maxRetries)
    /\ [](dlPc \in DlRunning => <>(dlPc \in DlStopped))

C35_Witness ==
    /\ dlPc = "failed"
    /\ maxRetries = MaxRetries
    /\ gets = MaxRetries
    /\ Len(sleeps) = MaxRetries
    /\ lastErr = "net"
====
